---- MODULE Spec2Model ----
(***************************************************************************)
(* A model of bigcode_eval/logging_utils.py: the WandbLogger that forwards *)
(* evaluation results to a Weights & Biases run, and the JSON fallback     *)
(* _handle_non_serializable.                                               *)
(*                                                                         *)
(* A Python object is a record [type, str, repr, val, id, elems]:          *)
(*   type   the name of the object's class,                                *)
(*   str    what str(o) returns for a leaf object (for an object written   *)
(*          with its address, the text before " at 0x..."),                *)
(*   repr   what repr(o) returns for a leaf object,                        *)
(*   val    for a number, the number itself in plain decimal notation: an  *)
(*          int in full, a float as the exact value of the double,         *)
(*   id     the identity of the object, for the objects whose identity     *)
(*          shows: a dict, list or set (a change made through one          *)
(*          reference is seen through every other), an object compared by  *)
(*          identity, a nan; "" for the others. Two records with the same  *)
(*          id are one object, so they are equal wherever they occur,      *)
(*   elems  the elements of a list, tuple, set or frozenset in iteration   *)
(*          order, the <<key, value>> items of a dict in insertion order,  *)
(*          the real and imaginary parts of a complex.                     *)
(* Objects do not contain themselves. The elements of the sets of the      *)
(* model are values hashed by value, and no sets of several elements; of   *)
(* the control characters its strings hold the line                        *)
(* feed, the carriage return, the tab and the form feed; the objects that  *)
(* copy.deepcopy returns as themselves (a function) have no state that can *)
(* change.                                                                 *)
(* The wandb SDK is outside the repository; the model keeps what the       *)
(* logger hands to it (run initialisation arguments, metric definitions,   *)
(* config updates, log events, artifacts).                                 *)
(***************************************************************************)
EXTENDS Integers, Sequences, FiniteSets, TLC

VARIABLES
    sdk,            \* the environment: "absent", "old" (< 0.13.6) or "ok"
    wandb_run,      \* wandb.run is not None (process-wide state of the SDK)
    init_calls,     \* the keyword arguments of every wandb.init call
    pc,             \* "new", "constructed", or "failed" (__init__ raised)
    warned,         \* logger.warning was called by __init__
    wandb_args,     \* self.wandb_args
    step,           \* self.step
    step_key,       \* self.step_key
    has_results,    \* self.results has been assigned
    results,        \* self.results
    has_task_names, \* self.task_names has been assigned
    task_names,     \* self.task_names
    has_wandb_results, \* self.wandb_results has been assigned
    wandb_results,  \* self.wandb_results
    caller,         \* the bundle object the caller passed to post_init
    attached,       \* the caller's bundle as it was when post_init last copied it
    orders,         \* the order in which a copy of a set yields its elements,
                    \* for the sets of the stored bundle (see PostInit)
    run_config,     \* the mapping run.config.update last received
    defined,        \* the run.define_metric calls made so far
    log_count,      \* the number of run.log calls made so far
    last_event,     \* the mapping the last run.log call received
    dumped,         \* the outcome of the last json.dumps call (line 97)
    artifacts,      \* the artifacts handed to run.log_artifact
    sdk_calls,      \* the SDK calls of the last operation, in order
    last_op,        \* the last operation called on the logger
    repeated,       \* the last two operations were both log_eval_result
    raised          \* the exception the last operation raised, or "none"

vars == <<sdk, wandb_run, init_calls, pc, warned, wandb_args, step, step_key,
          has_results, results, has_task_names, task_names, has_wandb_results,
          wandb_results, caller, attached, orders, run_config, defined, log_count,
          last_event, dumped, artifacts, sdk_calls, last_op, repeated,
          raised>>

----------------------------------------------------------------------------
(* Python objects *)

Leaf(cls, s, r, v, id) ==
    [type |-> cls, str |-> s, repr |-> r, val |-> v, id |-> id, elems |-> <<>>]
Container(cls, id, xs) ==
    [type |-> cls, str |-> "", repr |-> "", val |-> "", id |-> id, elems |-> xs]

PyInt(n) == Leaf("int", ToString(n), ToString(n), ToString(n), "")
\* a float, given by its repr and by its exact value
PyFloat(s, exact) == Leaf("float", s, s, exact, "")
PyStr(s) == Leaf("str", s, "", "", "")
PyNone == Leaf("NoneType", "None", "None", "", "")
PyBool(b) == IF b THEN Leaf("bool", "True", "True", "1", "")
             ELSE Leaf("bool", "False", "False", "0", "")
\* an instance of another class of numbers or of values, given by the class
\* name and its str() form, which is also its repr and, for a number, its value
PyObj(cls, s) == Leaf(cls, s, s, s, "")
\* a member of an IntEnum (Python 3.11: str() is the str of the int)
PyIntEnum(name, n) == Leaf("IntEnum", ToString(n), "<" \o name \o ": " \o ToString(n) \o ">",
                           ToString(n), "")
\* a decimal.Decimal, given by its str() form and by its value in plain
\* decimal notation ("1E+2" and "100"; "nan" for a NaN, which is given an
\* identity with Object)
PyDecimal(s, exact) == Leaf("Decimal", s, "Decimal('" \o s \o "')", exact, "")
\* a complex, given by its str() form and its parts (one with a nan part is
\* given an identity with Object)
PyComplex(s, re, im) ==
    [type |-> "complex", str |-> s, repr |-> s, val |-> "", id |-> "", elems |-> <<re, im>>]
\* a nan of class cls ("float" or "np.float64"): id names the object
PyNaN(cls, id) == Leaf(cls, "nan", "nan", "nan", id)
\* an object written with its address, which is its identity: an instance of a
\* plain class ("object"), a function ("function"), a lock ("lock")
PyAddressed(cls, s, id) == Leaf(cls, s, "", "", id)
PyList(xs) == Container("list", "", xs)
\* a set, its elements in the order in which iterating it yields them
PySet(xs) == Container("set", "", xs)
PyDict(items) == Container("dict", "", items)
PyTuple(xs) == Container("tuple", "", xs)
PyFrozenset(xs) == Container("frozenset", "", xs)
\* the object o under the identity id
Object(id, o) == [o EXCEPT !.id = id]

\* the classes whose instances can change
Mutable(o) == o.type \in {"dict", "list", "set"}
\* the classes whose instances str() and repr() write with their address
Addressed(o) == o.type \in {"object", "function", "lock"}

RECURSIVE Named(_, _)
\* The object o with every part that can change and has no identity yet
\* given one, made of the path that leads to it.
Named(o, path) ==
    IF o.type = "dict"
    THEN [o EXCEPT !.id = IF @ = "" THEN path ELSE @,
                   !.elems = [i \in 1..Len(o.elems) |->
                                 <<o.elems[i][1],
                                   Named(o.elems[i][2], path \o "." \o ToString(i))>>]]
    ELSE IF o.type \in {"list", "tuple"}
    THEN [o EXCEPT !.id = IF @ = "" /\ o.type = "list" THEN path ELSE @,
                   !.elems = [i \in 1..Len(o.elems) |->
                                 Named(o.elems[i], path \o "." \o ToString(i))]]
    ELSE IF o.type = "set"
    THEN [o EXCEPT !.id = IF @ = "" THEN path ELSE @]
    ELSE o

\* the classes a value of class cls is an instance of
Classes(cls) ==
    IF cls = "bool" THEN {"bool", "int"}
    ELSE IF cls = "IntEnum" THEN {"IntEnum", "int"}
    ELSE IF cls = "np.float64" THEN {"np.float64", "float"}
    ELSE {cls}
\* isinstance(o, cls)
isinstance(o, cls) == cls \in Classes(o.type)

\* whether a value is an integer (it has __index__)
HasIndex(k) == isinstance(k, "int") \/ k.type \in {"np.int64", "np.int32", "np.int16"}
\* the decimal form of the integer a value stands for
IndexStr(k) == k.val

RECURSIVE Pos(_, _, _)
\* the first position of the character c in s from position i on, or 0
Pos(s, c, i) ==
    IF i > Len(s) THEN 0
    ELSE IF SubSeq(s, i, i) = c THEN i
    ELSE Pos(s, c, i + 1)
RECURSIVE LStrip(_)
\* s without its leading zeros
LStrip(s) == IF s # "" /\ Head(s) = "0" THEN LStrip(Tail(s)) ELSE s
RECURSIVE RStrip(_)
\* s without its trailing zeros
RStrip(s) ==
    IF s # "" /\ SubSeq(s, Len(s), Len(s)) = "0"
    THEN RStrip(SubSeq(s, 1, Len(s) - 1))
    ELSE s

\* The number a plain decimal form writes, as the sign, the significant digits
\* and the power of ten of the last of them. The form is read in steps: the
\* sign, the digits before and after the point, of which the zeros at both
\* ends are dropped.
Canonical(neg, digits, sig, shift) ==
    IF sig = "" THEN [neg |-> FALSE, digits |-> "", exp |-> 0]
    ELSE [neg |-> neg, digits |-> sig, exp |-> shift + Len(digits) - Len(sig)]
Stripped(neg, digits, shift) == Canonical(neg, digits, RStrip(digits), shift)
Pointed(neg, mant, dot) ==
    IF dot = 0 THEN Stripped(neg, LStrip(mant), 0)
    ELSE Stripped(neg,
                  LStrip(SubSeq(mant, 1, dot - 1) \o SubSeq(mant, dot + 1, Len(mant))),
                  0 - (Len(mant) - dot))
Unsigned(neg, body) ==
    IF body \in {"inf", "Infinity"} THEN [neg |-> neg, digits |-> "inf", exp |-> 0]
    ELSE Pointed(neg, body, Pos(body, ".", 1))
Signed(text) ==
    IF Head(text) = "-" THEN Unsigned(TRUE, Tail(text)) ELSE Unsigned(FALSE, text)

\* whether a value is a real number, a number, a nan
IsReal(k) == HasIndex(k) \/ isinstance(k, "float") \/ k.type = "Decimal"
IsNumber(k) == IsReal(k) \/ k.type = "complex"
IsNaN(k) ==
    \/ IsReal(k) /\ k.val = "nan"
    \/ k.type = "complex" /\ (k.elems[1].val = "nan" \/ k.elems[2].val = "nan")
\* the number a value stands for: its real and its imaginary part
Number(k) ==
    IF k.type = "complex" THEN <<Signed(k.elems[1].val), Signed(k.elems[2].val)>>
    ELSE <<Signed(k.val), Signed("0")>>

\* a is b, for two objects of which one has an identity
Is(a, b) == a.id # "" /\ a.id = b.id

RECURSIVE Eq(_, _), SameKey(_, _)
\* a == b: two numbers of any classes that are the same number, a nan being
\* equal to no number; two strings with the same characters; two lists or two
\* tuples with the same elements in the same order; two sets, frozen or not,
\* with the same elements; two dicts with the same keys and the same values;
\* for the other classes, the same object.
Eq(a, b) ==
    IF IsNumber(a) /\ IsNumber(b)
    THEN ~IsNaN(a) /\ ~IsNaN(b) /\ Number(a) = Number(b)
    ELSE IF a.type = "str" /\ b.type = "str" THEN a.str = b.str
    ELSE IF a.type = "NoneType" /\ b.type = "NoneType" THEN TRUE
    ELSE IF a.type \in {"list", "tuple"} /\ b.type = a.type
    THEN /\ Len(a.elems) = Len(b.elems)
         /\ \A i \in 1..Len(a.elems) : SameKey(a.elems[i], b.elems[i])
    ELSE IF a.type \in {"set", "frozenset"} /\ b.type \in {"set", "frozenset"}
    THEN /\ Len(a.elems) = Len(b.elems)
         /\ \A i \in 1..Len(a.elems) :
               \E j \in 1..Len(b.elems) : SameKey(a.elems[i], b.elems[j])
    ELSE IF a.type = "dict" /\ b.type = "dict"
    THEN /\ Len(a.elems) = Len(b.elems)
         /\ \A i \in 1..Len(a.elems) :
               \E j \in 1..Len(b.elems) :
                   /\ SameKey(a.elems[i][1], b.elems[j][1])
                   /\ SameKey(a.elems[i][2], b.elems[j][2])
    ELSE Is(a, b)
\* Whether a and b are one dict key, and whether a container that holds a
\* holds b: a is b, or a == b (equal keys have equal hashes).
SameKey(a, b) == Is(a, b) \/ Eq(a, b)

\* dict operations, on the <<key, value>> items in insertion order
HasKey(d, k) == \E i \in 1..Len(d.elems) : SameKey(d.elems[i][1], k)
IndexOf(d, k) == CHOOSE i \in 1..Len(d.elems) : SameKey(d.elems[i][1], k)
GetItem(d, k) == d.elems[IndexOf(d, k)][2]
Keys(d) == [i \in 1..Len(d.elems) |-> d.elems[i][1]]
\* d after d[k] = v: an existing key keeps its position and its key object
SetItem(d, k, v) ==
    IF HasKey(d, k)
    THEN [d EXCEPT !.elems[IndexOf(d, k)][2] = v]
    ELSE [d EXCEPT !.elems = Append(@, <<k, v>>)]
\* d after d.pop(k), for a key that is present
PopAt(d, i) ==
    [d EXCEPT !.elems = SubSeq(@, 1, i - 1) \o SubSeq(@, i + 1, Len(@))]
PopItem(d, k) == PopAt(d, IndexOf(d, k))
\* d.get(k): without the default, a missing key gives None
GetWithoutDefault(d, k, default) ==
    IF HasKey(d, k) THEN GetItem(d, k) ELSE PyNone
\* d.get(k, default)
Get(d, k, default) == IF HasKey(d, k) THEN GetItem(d, k) ELSE default

----------------------------------------------------------------------------
(* str() and repr() *)

RECURSIVE Replaced(_, _, _)
\* s with every character c written as the text t
Replaced(s, c, t) ==
    IF s = "" THEN ""
    ELSE (IF Head(s) = c THEN t ELSE Head(s)) \o Replaced(Tail(s), c, t)

\* the characters repr() writes as escapes in any string
Escaped(s) ==
    Replaced(Replaced(Replaced(Replaced(Replaced(s, "\\", "\\\\"), "\n", "\\n"),
                               "\r", "\\r"), "\t", "\\t"), "\f", "\\x0c")
\* repr(s) of a string: in double quotes if it holds ' and no ", else in single
\* quotes
ReprOfStr(s) ==
    IF Pos(s, "'", 1) # 0 /\ Pos(s, "\"", 1) = 0
    THEN "\"" \o Escaped(s) \o "\""
    ELSE "'" \o Replaced(Escaped(s), "'", "\\'") \o "'"

RECURSIVE Repr(_), Joined(_, _), JoinedItems(_, _)
\* repr(o), which is str(o) for a container
Repr(o) ==
    IF o.type = "str" THEN ReprOfStr(o.str)
    ELSE IF Addressed(o) THEN "<" \o o.str \o " at " \o o.id \o ">"
    ELSE IF o.type = "list" THEN "[" \o Joined(o.elems, 1) \o "]"
    ELSE IF o.type = "tuple"
    THEN "(" \o Joined(o.elems, 1) \o (IF Len(o.elems) = 1 THEN "," ELSE "") \o ")"
    ELSE IF o.type = "set"
    THEN IF o.elems = <<>> THEN "set()" ELSE "{" \o Joined(o.elems, 1) \o "}"
    ELSE IF o.type = "frozenset"
    THEN IF o.elems = <<>> THEN "frozenset()"
         ELSE "frozenset({" \o Joined(o.elems, 1) \o "})"
    ELSE IF o.type = "dict" THEN "{" \o JoinedItems(o.elems, 1) \o "}"
    ELSE o.repr
Joined(xs, i) ==
    IF i > Len(xs) THEN ""
    ELSE Repr(xs[i]) \o (IF i < Len(xs) THEN ", " ELSE "") \o Joined(xs, i + 1)
JoinedItems(items, i) ==
    IF i > Len(items) THEN ""
    ELSE Repr(items[i][1]) \o ": " \o Repr(items[i][2])
         \o (IF i < Len(items) THEN ", " ELSE "") \o JoinedItems(items, i + 1)

\* str(o)
Str(o) ==
    IF o.type \in {"list", "tuple", "set", "frozenset", "dict"} \/ Addressed(o)
    THEN Repr(o)
    ELSE o.str

----------------------------------------------------------------------------
(* copy.deepcopy *)

RECURSIVE Uncopyable(_)
\* whether o holds an object that cannot be copied (a lock)
Uncopyable(o) ==
    IF o.type = "dict"
    THEN \E i \in 1..Len(o.elems) :
            Uncopyable(o.elems[i][1]) \/ Uncopyable(o.elems[i][2])
    ELSE IF o.type \in {"list", "tuple", "set", "frozenset"}
    THEN \E i \in 1..Len(o.elems) : Uncopyable(o.elems[i])
    ELSE o.type = "lock"

\* the permutations of 1..n
Perms(n) == { p \in [1..n -> 1..n] : \A i, j \in 1..n : p[i] = p[j] => i = j }

\* xs in the order p: the i-th element is the p[i]-th of xs
Reordered(xs, p) == [i \in 1..Len(xs) |-> xs[p[i]]]

\* A copy of a set is built from the list of the copied elements, in the
\* order in which the set yields them: the order in which the copy yields
\* them depends on their hashes and on nothing else of the set. order maps
\* the elements of a set, in the order in which it yields them, to the
\* permutation that gives the order of its copy; a set it does not map
\* yields its elements as its copy does.
OrderOf(order, xs) ==
    IF xs \in DOMAIN order THEN order[xs] ELSE [i \in 1..Len(xs) |-> i]

RECURSIVE Copy(_, _, _)
\* The deep copy of o. mark names the call: the copy of an object with an
\* identity is a new object, whose identity is the original's and the mark,
\* so what is one object in o is one object in the copy. Copied as new
\* objects: the containers, the instances of plain classes and of
\* numpy.float64 (of which a nan has an identity). Copied as themselves: a
\* function, and the values of the other classes, a nan of class float,
\* complex or Decimal among them. order tells the order in which the copied
\* sets yield their elements.
Copy(o, mark, order) ==
    IF o.type = "dict"
    THEN [o EXCEPT !.id = @ \o mark,
                   !.elems = [i \in 1..Len(o.elems) |->
                                 <<Copy(o.elems[i][1], mark, order),
                                   Copy(o.elems[i][2], mark, order)>>]]
    ELSE IF o.type \in {"list", "tuple"}
    THEN [o EXCEPT !.id = IF @ = "" THEN "" ELSE @ \o mark,
                   !.elems = [i \in 1..Len(o.elems) |-> Copy(o.elems[i], mark, order)]]
    ELSE IF o.type \in {"set", "frozenset"}
    THEN [o EXCEPT !.id = IF @ = "" THEN "" ELSE @ \o mark,
                   !.elems = Reordered([i \in 1..Len(o.elems) |->
                                           Copy(o.elems[i], mark, order)],
                                       OrderOf(order, o.elems))]
    ELSE IF o.type = "object" \/ (o.type = "np.float64" /\ IsNaN(o))
    THEN [o EXCEPT !.id = @ \o mark]
    ELSE o

\* copy.copy(o): a new container that holds the objects o holds
copy(o, mark, order) ==
    [raised |-> "none",
     obj |-> IF Mutable(o) THEN [o EXCEPT !.id = @ \o mark] ELSE o]
\* copy.deepcopy(o): the exception raised or "none", and the copy
deepcopy(o, mark, order) ==
    [raised |-> IF Uncopyable(o) THEN "TypeError" ELSE "none",
     obj |-> Copy(o, mark, order)]

----------------------------------------------------------------------------
(* References: what holds an object sees the changes made to it *)

RECURSIVE Replace(_, _, _)
\* o after the object id became node, wherever o holds it
Replace(o, id, node) ==
    IF o.id = id THEN node
    ELSE IF o.type = "dict"
    THEN [o EXCEPT !.elems = [i \in 1..Len(o.elems) |->
                                 <<o.elems[i][1], Replace(o.elems[i][2], id, node)>>]]
    ELSE IF o.type \in {"list", "tuple"}
    THEN [o EXCEPT !.elems = [i \in 1..Len(o.elems) |-> Replace(o.elems[i], id, node)]]
    ELSE o

\* The objects a call works on, each under the name of a reference to it, and
\* the exception the call raised so far: d is _results, t is tmp_results, s is
\* self.results and c is the caller's bundle.
Refs(d, t, s, c) == [raised |-> "none", d |-> d, t |-> t, s |-> s, c |-> c]
\* st after the object id became node: every reference sees it
Mutate(st, id, node) ==
    [st EXCEPT !.d = Replace(@, id, node), !.t = Replace(@, id, node),
               !.s = Replace(@, id, node), !.c = Replace(@, id, node)]
Raise(st, exc) == [st EXCEPT !.raised = exc]

----------------------------------------------------------------------------
(* _sanitize_results_dict: the flattening of self.results["results"] *)

\* f"{task_name}/{metric_name}"
CompositeKey(task_name, metric_name) == PyStr(Str(task_name) \o "/" \o Str(metric_name))

\* the positions of xs that the index k names, counted from either end
ListIndex(xs, k) ==
    { i \in 1..Len(xs) : IndexStr(k) \in {ToString(i - 1), ToString(i - 1 - Len(xs))} }

\* _results[task_name].pop(metric_name), as an exception name or "none"
PopRaises(target, metric_name) ==
    IF target.type = "dict"
    THEN IF HasKey(target, metric_name) THEN "none" ELSE "KeyError"
    ELSE IF target.type = "list"
    THEN IF ~HasIndex(metric_name) THEN "TypeError"
         ELSE IF ListIndex(target.elems, metric_name) = {} THEN "IndexError"
         ELSE "none"
    ELSE IF target.type = "set" THEN "TypeError"
    ELSE "AttributeError"

\* the target after a pop that does not raise
PopFrom(target, metric_name) ==
    IF target.type = "dict" THEN PopItem(target, metric_name)
    ELSE PopAt(target, CHOOSE j \in ListIndex(target.elems, metric_name) : TRUE)

\* line 89, the pop on target = _results[task_name]
PopMetric(st, metric_name, target) ==
    IF PopRaises(target, metric_name) # "none"
    THEN Raise(st, PopRaises(target, metric_name))
    ELSE Mutate(st, target.id, PopFrom(target, metric_name))

\* line 89, on st after line 88
PopFromTask(st, task_name, metric_name) ==
    IF ~HasKey(st.d, task_name)
    THEN \* _results[task_name]: the key of tmp_results is no key of _results
         Raise(st, "KeyError")
    ELSE PopMetric(st, metric_name, GetItem(st.d, task_name))

\* lines 88-89
LoopBody(st, task_name, metric_name, metric_value) ==
    PopFromTask(Mutate(st, st.d.id,
                       SetItem(st.d, CompositeKey(task_name, metric_name), metric_value)),
                task_name, metric_name)

RECURSIVE MetricLoop(_, _, _, _)
\* line 87: for metric_name, metric_value in task_results.items(), where
\* task_results is the i-th value of tmp_results, before the j-th metric; the
\* iteration raises if the mapping has no longer the n items it started with
MetricLoop(st, i, j, n) ==
    IF st.raised # "none" THEN st
    ELSE IF Len(st.t.elems[i][2].elems) # n THEN Raise(st, "RuntimeError")
    ELSE IF j > n THEN st
    ELSE MetricLoop(LoopBody(st, st.t.elems[i][1], st.t.elems[i][2].elems[j][1],
                             st.t.elems[i][2].elems[j][2]),
                    i, j + 1, n)

\* line 87, task_results.items()
Metrics(st, i) ==
    IF st.t.elems[i][2].type # "dict" THEN Raise(st, "AttributeError")
    ELSE MetricLoop(st, i, 1, Len(st.t.elems[i][2].elems))

RECURSIVE TaskLoop(_, _, _)
\* line 86: for task_name, task_results in tmp_results.items(), before the
\* i-th of the n tasks
TaskLoop(st, i, n) ==
    IF st.raised # "none" THEN st
    ELSE IF Len(st.t.elems) # n THEN Raise(st, "RuntimeError")
    ELSE IF i > n THEN st
    ELSE TaskLoop(Metrics(st, i), i + 1, n)

\* line 86, tmp_results.items()
Tasks(st) ==
    IF st.t.type # "dict" THEN Raise(st, "AttributeError")
    ELSE TaskLoop(st, 1, Len(st.t.elems))

RECURSIVE PopTasks(_, _, _)
\* lines 90-91: for task in self.task_names: _results.pop(task)
PopTasks(st, names, i) ==
    IF st.raised # "none" \/ i > Len(names) THEN st
    ELSE IF ~HasKey(st.d, names[i]) THEN Raise(st, "KeyError")
    ELSE PopTasks(Mutate(st, st.d.id, PopItem(st.d, names[i])), names, i + 1)

\* line 90, on self_task_names = <<whether self.task_names is assigned, its value>>
Names(st, self_task_names) ==
    IF st.raised # "none" THEN st
    ELSE IF ~self_task_names[1] THEN Raise(st, "AttributeError")
    ELSE PopTasks(st, self_task_names[2], 1)

\* lines 85-91, on st with d = _results, and on copied = the outcome of line 85
Loops(st, copied, self_task_names) ==
    IF copied.raised # "none" THEN Raise(st, copied.raised)
    ELSE Names(Tasks([st EXCEPT !.t = copied.obj]), self_task_names)

\* the identity given to a dict the code creates
Default == Object("default", PyDict(<<>>))

\* the marks of the copies of lines 83 and 85 in the call number n
MarkR(n) == ".r" \o ToString(n)
MarkT(n) == ".t" \o ToString(n)

\* lines 85-93, on copied = the outcome of line 83; call = [n, order], the
\* number of the call and the order of the copies of sets
Flatten(self_results, self_task_names, others, call, copied) ==
    IF copied.raised # "none"
    THEN Raise(Refs(Default, Default, self_results, others), copied.raised)
    ELSE Loops(Refs(copied.obj, Default, self_results, others),
               deepcopy(copied.obj, MarkT(call.n), call.order),
               self_task_names)

\* the flattening without the copy of line 83: _results is the stored mapping
_sanitize_in_place(self_results, self_task_names, others, call) ==
    Flatten(self_results, self_task_names, others, call,
            [raised |-> "none", obj |-> Get(self_results, PyStr("results"), Default)])

\* The call on self.results and on self.task_names, with the caller's bundle
\* as the other object of the process: the exception raised or "none", the
\* mapping returned (d), and self.results (s) and the caller's bundle (c)
\* after the call.
_sanitize_results_dict(self_results, self_task_names, others, call) ==
    Flatten(self_results, self_task_names, others, call,
            deepcopy(Get(self_results, PyStr("results"), Default),
                     MarkR(call.n), call.order))
----------------------------------------------------------------------------
(* json.dumps(self.results, indent=2, default=_handle_non_serializable,   *)
(* ensure_ascii=False)                                                     *)

\* lines 114-119; the list made of a set holds its elements in iteration order
_handle_non_serializable(o) ==
    IF isinstance(o, "np.int64") \/ isinstance(o, "np.int32")
    THEN Leaf("int", o.val, o.val, o.val, "")
    ELSE IF isinstance(o, "set")
    THEN Container("list", o.id \o ".list", o.elems)
    ELSE PyStr(Str(o))

\* the classes whose instances the encoder writes without calling default
NativeTypes == {"dict", "list", "tuple", "str", "int", "float", "bool", "NoneType"}
\* the classes whose instances the encoder accepts as keys (skipkeys is False)
KeyTypes == {"str", "int", "float", "bool", "NoneType"}

\* whether the encoder writes o without calling default
Native(o) == Classes(o.type) \cap NativeTypes # {}
\* whether the encoder accepts k as a key
KeyAccepted(k) == Classes(k.type) \cap KeyTypes # {}

\* the text of a float, given its repr (allow_nan is True)
FloatText(s) ==
    IF s = "nan" THEN "NaN"
    ELSE IF s = "inf" THEN "Infinity"
    ELSE IF s = "-inf" THEN "-Infinity"
    ELSE s

\* The text of a string (ensure_ascii is False): in double quotes, with the
\* backslash, the double quote and the control characters written as escapes.
\* Of the control characters a string of the model can hold the line feed, the
\* carriage return, the tab and the form feed.
StringText(s) ==
    "\"" \o Replaced(Replaced(Replaced(Replaced(Replaced(Replaced(
                s, "\\", "\\\\"), "\"", "\\\""), "\n", "\\n"), "\r", "\\r"),
                "\t", "\\t"), "\f", "\\f") \o "\""

\* the text of a scalar: a str, None, True, False, an int, a float, tried in
\* this order
ScalarText(o) ==
    IF isinstance(o, "str") THEN StringText(o.str)
    ELSE IF o.type = "NoneType" THEN "null"
    ELSE IF o.type = "bool" THEN (IF o.str = "True" THEN "true" ELSE "false")
    ELSE IF isinstance(o, "int") THEN o.val
    ELSE FloatText(o.str)
\* the text of an accepted key: a str, a float, True, False, None, an int, tried
\* in this order, and what they give written as a string
KeyText(k) ==
    IF isinstance(k, "str") THEN StringText(k.str)
    ELSE IF isinstance(k, "float") THEN StringText(FloatText(k.str))
    ELSE IF k.type = "bool" THEN (IF k.str = "True" THEN "\"true\"" ELSE "\"false\"")
    ELSE IF k.type = "NoneType" THEN "\"null\""
    ELSE StringText(k.val)

RECURSIVE Indent(_)
\* a line break and the indentation of a nesting level (indent=2)
Indent(level) == IF level = 0 THEN "\n" ELSE Indent(level - 1) \o "  "

RECURSIVE DumpRaises(_)
\* whether the dump raises TypeError: default is called for values, never for keys
DumpRaises(o) ==
    IF isinstance(o, "dict")
    THEN \E i \in 1..Len(o.elems) :
            ~KeyAccepted(o.elems[i][1]) \/ DumpRaises(o.elems[i][2])
    ELSE IF isinstance(o, "list") \/ isinstance(o, "tuple")
    THEN \E i \in 1..Len(o.elems) : DumpRaises(o.elems[i])
    ELSE IF Native(o) THEN FALSE
    ELSE DumpRaises(_handle_non_serializable(o))

RECURSIVE Encode(_, _), EncodeItems(_, _, _), EncodeElems(_, _, _)
\* the text of o at a nesting level
Encode(o, level) ==
    IF isinstance(o, "dict")
    THEN IF o.elems = <<>> THEN "{}"
         ELSE "{" \o EncodeItems(o.elems, 1, level + 1) \o Indent(level) \o "}"
    ELSE IF isinstance(o, "list") \/ isinstance(o, "tuple")
    THEN IF o.elems = <<>> THEN "[]"
         ELSE "[" \o EncodeElems(o.elems, 1, level + 1) \o Indent(level) \o "]"
    ELSE IF Native(o) THEN ScalarText(o)
    ELSE Encode(_handle_non_serializable(o), level)
EncodeItems(items, i, level) ==
    IF i > Len(items) THEN ""
    ELSE Indent(level) \o KeyText(items[i][1]) \o ": " \o Encode(items[i][2], level)
         \o (IF i < Len(items) THEN "," ELSE "") \o EncodeItems(items, i + 1, level)
EncodeElems(xs, i, level) ==
    IF i > Len(xs) THEN ""
    ELSE Indent(level) \o Encode(xs[i], level)
         \o (IF i < Len(xs) THEN "," ELSE "") \o EncodeElems(xs, i + 1, level)

dumps(o) ==
    IF DumpRaises(o)
    THEN [raised |-> "TypeError", text |-> ""]
    ELSE [raised |-> "none", text |-> Encode(o, 0)]

----------------------------------------------------------------------------
(* _log_results_as_artifact *)

\* the names bound at module level: `import wandb` is a statement of __init__
\* (line 31) and binds a local of __init__ only
ModuleGlobals ==
    {"copy", "logging", "Any", "Dict", "List", "Literal", "Optional", "Tuple",
     "Union", "np", "Version", "json", "logger", "get_wandb_printer",
     "WandbLogger", "_handle_non_serializable"}

\* f"{self.step_key}_{self.step}"
StepAlias(self_step_key, self_step) == self_step_key \o "_" \o ToString(self_step)

\* The exception raised or "none", the outcome of json.dumps, and the artifacts
\* handed to run.log_artifact.
Uploaded(out, self_step_key, self_step) ==
    IF out.raised # "none"
    THEN [raised |-> out.raised, dumped |-> out, uploaded |-> <<>>]
    ELSE IF "wandb" \notin ModuleGlobals
    THEN [raised |-> "NameError", dumped |-> out, uploaded |-> <<>>]
    ELSE [raised |-> "none", dumped |-> out,
          uploaded |-> << [name |-> "results", type |-> "eval_results",
                           file |-> "results.json", content |-> out.text,
                           aliases |-> <<"latest",
                                         StepAlias(self_step_key, self_step)>>] >>]
_log_results_as_artifact(self_results, self_step_key, self_step) ==
    Uploaded(dumps(self_results), self_step_key, self_step)

----------------------------------------------------------------------------
(* __init__ *)

DefaultStep == 0
DefaultStepKey == "train/step"

\* the try block of lines 30-41: the exception it catches, or "none"
ImportRaises(env) ==
    CASE env = "absent" -> "ModuleNotFoundError"
      [] env = "old" -> "AssertionError"
      [] OTHER -> "none"

\* whether `wandb` is bound in __init__ after the try block
WandbBound(env) == env # "absent"

\* kwargs.pop(key, default): the value popped
Pop(kwargs, key, default) == IF key \in DOMAIN kwargs THEN kwargs[key] ELSE default
\* kwargs after kwargs.pop(key, default)
Without(kwargs, key) == [k \in DOMAIN kwargs \ {key} |-> kwargs[k]]

\* self.wandb_args after lines 43-46
RunInitArgs(kwargs) == Without(Without(kwargs, "step"), "step_key")

\* a run.define_metric call
Metric(name, step_metric, hidden, step_sync) ==
    [name |-> name, step_metric |-> step_metric, hidden |-> hidden,
     step_sync |-> step_sync]

\* lines 55-56
InitMetrics(self_step_key) ==
    {Metric(self_step_key, "", TRUE, FALSE),
     Metric("evaluation/*", self_step_key, FALSE, TRUE)}

----------------------------------------------------------------------------------------------------------------------------------------------------
(* The inputs *)

MaxLogCalls == 2

S(s) == PyStr(s)
Metrics_x == PyDict(<< <<S("x"), PyInt(1)>> >>)
Metrics_y == PyDict(<< <<S("y"), PyInt(2)>> >>)
Metrics_xy == PyDict(<< <<S("x"), PyInt(1)>>, <<S("y"), PyInt(2)>> >>)
Metrics_x_y == PyDict(<< <<S("x/y"), PyInt(1)>> >>)
Metrics_none == PyDict(<<>>)
Metrics_list == PyDict(<< <<S("x"), PyList(<<PyInt(10), PyInt(20)>>)>> >>)
Metrics_0 == PyDict(<< <<PyInt(0), PyInt(5)>> >>)

\* a bundle, as the caller's object "b": a mapping with the results and config
\* given, each left out if it is None
Bundle(r, c) ==
    Named(PyDict((IF r = PyNone THEN <<>> ELSE << <<S("results"), r>> >>)
                 \o (IF c = PyNone THEN <<>> ELSE << <<S("config"), c>> >>)), "b")

\* results mappings: without tasks, without metrics, with one and two tasks, and
\* with names that hold the separator "/"
ResultsInputs ==
    { PyDict(<<>>),
      PyDict(<< <<S("a"), Metrics_none>> >>),
      PyDict(<< <<S("a"), Metrics_x>> >>),
      PyDict(<< <<S("a"), Metrics_xy>> >>),
      PyDict(<< <<S("a"), Metrics_x>>, <<S("b"), Metrics_xy>> >>),
      PyDict(<< <<S("a"), Metrics_x>>, <<S("a/x"), Metrics_y>> >>),
      PyDict(<< <<S("a/x"), Metrics_y>>, <<S("a"), Metrics_x>> >>),
      PyDict(<< <<S("a"), Metrics_x>>, <<S("a/x"), Metrics_none>> >>),
      PyDict(<< <<S("a"), Metrics_x_y>>, <<S("a/x"), Metrics_y>> >>) }

ConfigInputs == { PyDict(<< <<S("seed"), PyInt(0)>> >>) }
\* the results mappings that also come with a config
ConfiguredResults ==
    { PyDict(<<>>),
      PyDict(<< <<S("a"), Metrics_xy>> >>),
      PyDict(<< <<S("a"), Metrics_x>>, <<S("a/x"), Metrics_y>> >>) }

\* a results mapping with a list metric under the name of a task whose metric
\* is named by an int
ListMetric == PyDict(<< <<S("a"), Metrics_list>>, <<S("a/x"), Metrics_0>> >>)

\* a results mapping with a metric named 1.0 in a task named as the key of a
\* mapping metric that holds the key 1, and with a task whose metric is named
\* by a nan
FloatNames ==
    PyDict(<< <<S("a"), PyDict(<< <<S("x"), PyDict(<< <<PyInt(1), PyInt(5)>> >>)>> >>)>>,
              <<S("a/x"), PyDict(<< <<PyFloat("1.0", "1"), PyInt(7)>> >>)>>,
              <<S("b"), PyDict(<< <<PyNaN("float", "n"), PyInt(8)>> >>)>> >>)

\* the same with the float 1e+23, which is the integer 99999999999999991611392,
\* against that integer
LargeNames ==
    PyDict(<< <<S("a"), PyDict(<< <<S("x"),
                  PyDict(<< <<PyObj("int", "99999999999999991611392"), PyInt(5)>> >>)>> >>)>>,
              <<S("a/x"), PyDict(<< <<PyFloat("1e+23", "99999999999999991611392"),
                                      PyInt(7)>> >>)>> >>)

\* the same with the Decimal 1E+2 against the integer 100
DecimalNames ==
    PyDict(<< <<S("a"), PyDict(<< <<S("x"), PyDict(<< <<PyInt(100), PyInt(5)>> >>)>> >>)>>,
              <<S("a/x"), PyDict(<< <<PyDecimal("1E+2", "100"), PyInt(7)>> >>)>> >>)

\* two tasks whose metrics are one mapping
SharedTasks ==
    PyDict(<< <<S("a"), Object("m", Metrics_x)>>, <<S("b"), Object("m", Metrics_x)>> >>)

\* a task whose metrics mapping is also a metric of another task, under the
\* name that makes the task's key
SharedMetric ==
    PyDict(<< <<S("a"), PyDict(<< <<S("x"), Object("m", Metrics_y)>> >>)>>,
              <<S("a/x"), Object("m", Metrics_y)>> >>)

\* a metric that is an instance of a plain class, compared by identity
Tag == PyAddressed("object", "Tag object", "tag")
TaggedMetric == PyDict(<< <<S("a"), PyDict(<< <<S("x"), Tag>> >>)>> >>)

\* a config that holds a lock, which cannot be copied
Lock == PyAddressed("lock", "unlocked _thread.lock object", "lock")
LockedConfig == PyDict(<< <<S("lock"), Lock>> >>)

\* results bundles, with and without the "results" and "config" keys, and one
\* whose "results" entry is not a mapping
Bundles ==
    { Bundle(r, c) : r \in ConfiguredResults, c \in ConfigInputs }
    \cup { Bundle(r, PyNone) : r \in ResultsInputs \cup {ListMetric, FloatNames, LargeNames, DecimalNames} }
    \cup { Bundle(PyNone, c) : c \in ConfigInputs \cup {PyNone, LockedConfig} }
    \cup { Named(PyDict(<< <<S("results"), PyNone>> >>), "b") }

\* bundles with objects that occur twice, with objects compared by identity
\* and with objects that cannot be copied
CopyBundles ==
    { Bundle(r, c) : r \in {PyDict(<< <<S("a"), Metrics_xy>> >>)}, c \in ConfigInputs }
    \cup { Bundle(r, PyNone) :
             r \in { SharedTasks, SharedMetric, TaggedMetric,
                     PyDict(<< <<S("a"), Metrics_list>> >>),
                     PyDict(<< <<PyFrozenset(<<PyInt(1), PyInt(2)>>), Metrics_x>> >>),
                     PyDict(<< <<S("a"), PyDict(<< <<S("ids"), PySet(<<PyInt(7), PyInt(8)>>)>>,
                                                   <<S("tags"), PySet(<<S("u"), S("v")>>)>> >>)>> >>),
                     PyDict(<< <<S("a"), PyDict(<< <<S("x"),
                                   PyNaN("np.float64", "nan")>> >>)>> >>) } }
    \cup { Bundle(PyDict(<< <<S("a"), Metrics_x>> >>), LockedConfig) }

\* bundles without "results", without "config", without both, with an empty
\* "results", with a task without metrics and with a "results" that is no
\* mapping, next to bundles that have both keys
MalformedBundles ==
    { Bundle(r, c) :
        r \in { PyNone, PyDict(<<>>), PyDict(<< <<S("a"), Metrics_xy>> >>) },
        c \in ConfigInputs \cup {PyNone} }
    \cup { Bundle(r, PyNone) :
             r \in { PyDict(<< <<S("a"), Metrics_none>> >>),
                     PyDict(<< <<S("a"), Metrics_x>>, <<S("a/x"), Metrics_y>> >>) } }
    \cup { Bundle(PyNone, LockedConfig),
           Named(PyDict(<< <<S("results"), PyNone>> >>), "b") }

\* configs with values and keys the JSON encoder does not write natively, with
\* instances of subclasses of int and float, with floats that are not finite
\* and with strings that hold characters the encoder writes as escapes
TypedConfigs ==
    { PyDict(<< <<S("n"), PyObj("np.int64", "7")>>,
                <<S("ids"), PySet(<<PyInt(1), PyObj("np.int32", "3")>>)>>,
                <<S("small"), PyObj("np.int16", "5")>>,
                <<S("frozen"), PyFrozenset(<<PyInt(1)>>)>>,
                <<PyInt(1), PyFloat("0.5", "0.5")>> >>),
      PyDict(<< <<PyTuple(<<PyInt(1), PyInt(2)>>), PyInt(1)>> >>),
      PyDict(<< <<S("by_id"),
                  PyDict(<< <<PyObj("np.int64", "1"), S("v")>> >>)>> >>),
      PyDict(<< <<S("mean"), PyObj("np.float64", "0.5")>>,
                <<S("color"), PyIntEnum("Color.RED", 1)>>,
                <<S("worst"), PyNaN("float", "n")>>,
                <<S("best"), PyFloat("-inf", "-inf")>>,
                <<PyObj("np.float64", "0.25"), PyFloat("inf", "inf")>>,
                <<PyIntEnum("Color.GREEN", 2), PyBool(TRUE)>>,
                <<PyNaN("float", "m"), PyNone>> >>),
      PyDict(<< <<S("quote\"back\\slash"), S("line\nfeed\ttab\rreturn\fform")>>,
                <<S("price"), PyDecimal("1.50", "1.50")>>,
                <<S("z"), PyComplex("(1+2j)", PyFloat("1.0", "1"), PyFloat("2.0", "2"))>>,
                <<S("tag"), Tag>>,
                <<S("fn"), PyAddressed("function", "function f", "f")>>,
                <<S("pair"), PyTuple(<<S("it's"), PyList(<<PyNone>>)>>)>>,
                <<S("names"), PyFrozenset(<<S("u"), S("v")>>)>> >>),
      PyDict(<< <<PyDecimal("1.5", "1.5"), PyInt(1)>> >>) }

\* results bundles whose config holds the values and keys of TypedConfigs
TypedBundles ==
    { Bundle(r, c) :
        r \in { PyDict(<<>>), PyDict(<< <<S("a"), Metrics_xy>> >>) },
        c \in TypedConfigs \cup ConfigInputs }

\* constructor keyword arguments: every subset of these
KwargValues == [step |-> 3, step_key |-> "a/x", project |-> "p"]
KwargsInputs == { [k \in D |-> KwargValues[k]] : D \in SUBSET DOMAIN KwargValues }
\* the defaults, and a step key that is also a "<task>/<metric>" key
StepInputs == { <<>>, [step |-> 3, step_key |-> "a/x"] }

\* the keys a caller removes from its own bundle after post_init
CallerKeys == {S("results"), S("config")}

RECURSIVE SetsOf(_)
\* the sets of more than one element that o holds, each as its elements in
\* the order in which it yields them
SetsOf(o) ==
    IF o.type = "dict"
    THEN UNION { SetsOf(o.elems[i][1]) \cup SetsOf(o.elems[i][2]) : i \in 1..Len(o.elems) }
    ELSE IF o.type \in {"list", "tuple"}
    THEN UNION { SetsOf(o.elems[i]) : i \in 1..Len(o.elems) }
    ELSE IF o.type \in {"set", "frozenset"}
    THEN (IF Len(o.elems) > 1 THEN {o.elems} ELSE {})
         \cup UNION { SetsOf(o.elems[i]) : i \in 1..Len(o.elems) }
    ELSE {}

\* the orders in which the sets of o and of its copies can yield their elements
Arrangements(o) ==
    UNION { { Reordered(xs, p) : p \in Perms(Len(xs)) } : xs \in SetsOf(o) }

\* the ways in which copying can order the sets of o and of its copies: a
\* permutation for each set in each order
Orders(o) ==
    { order \in [Arrangements(o) -> UNION { Perms(Len(xs)) : xs \in SetsOf(o) }] :
        \A xs \in Arrangements(o) : Len(order[xs]) = Len(xs) }

----------------------------------------------------------------------------
(* The state machine *)

Init ==
    /\ sdk \in {"absent", "old", "ok"}
    /\ wandb_run \in BOOLEAN
    /\ wandb_run => sdk # "absent"
    /\ init_calls = <<>>
    /\ pc = "new"
    /\ warned = FALSE
    /\ wandb_args = <<>>
    /\ step = DefaultStep
    /\ step_key = DefaultStepKey
    /\ has_results = FALSE
    /\ results = PyNone
    /\ has_task_names = FALSE
    /\ task_names = <<>>
    /\ has_wandb_results = FALSE
    /\ wandb_results = PyNone
    /\ caller = PyNone
    /\ attached = PyNone
    /\ orders = <<>>
    /\ run_config = PyNone
    /\ defined = {}
    /\ log_count = 0
    /\ last_event = PyNone
    /\ dumped = [raised |-> "unset", text |-> ""]
    /\ artifacts = <<>>
    /\ sdk_calls = <<>>
    /\ last_op = "none"
    /\ repeated = FALSE
    /\ raised = "none"

\* WandbLogger(**kwargs). The printer of line 58 is an object of the SDK and
\* no later operation reads it: it is not part of the state.
Construct(kwargs) ==
    /\ pc = "new"
    /\ last_op' = "__init__"
    /\ repeated' = FALSE
    /\ warned' = (ImportRaises(sdk) # "none")
    /\ wandb_args' = RunInitArgs(kwargs)
    /\ step' = Pop(kwargs, "step", DefaultStep)
    /\ step_key' = Pop(Without(kwargs, "step"), "step_key", DefaultStepKey)
    /\ IF ~WandbBound(sdk)
       THEN \* line 50 reads the unbound local `wandb`
            /\ pc' = "failed"
            /\ raised' = "UnboundLocalError"
            /\ sdk_calls' = <<>>
            /\ UNCHANGED <<wandb_run, init_calls, defined>>
       ELSE /\ pc' = "constructed"
            /\ raised' = "none"
            /\ wandb_run' = TRUE
            /\ init_calls' = IF wandb_run THEN init_calls
                             ELSE Append(init_calls, wandb_args')
            /\ defined' = defined \cup InitMetrics(step_key')
            /\ sdk_calls' = (IF wandb_run THEN <<>> ELSE << <<"init", "">> >>)
                            \o << <<"define_metric", step_key'>>,
                                  <<"define_metric", "evaluation/*">> >>
    /\ UNCHANGED <<sdk, has_results, results, has_task_names, task_names,
                   has_wandb_results, wandb_results, caller, attached, orders,
                   run_config, log_count, last_event, dumped, artifacts>>

\* The mark of the copy of line 61. The copy a later post_init stores takes
\* the place, and the mark, of the copy it replaces: what the SDK still holds
\* of the replaced copy (run_config, the addresses written in dumped) dates
\* from before that post_init.
MarkS == ".s"

\* line 62, on got = results.get("results", {})
RecordNames(got) ==
    IF got.type = "dict"
    THEN /\ task_names' = Keys(got)
         /\ has_task_names' = TRUE
         /\ raised' = "none"
    ELSE \* no keys()
         /\ raised' = "AttributeError"
         /\ UNCHANGED <<has_task_names, task_names>>

\* lines 61-62, on copied = the outcome of copy.deepcopy(results)
Store(b, copied, order) ==
    IF copied.raised # "none"
    THEN /\ raised' = copied.raised
         /\ UNCHANGED <<has_results, results, attached, orders, has_task_names,
                        task_names>>
    ELSE /\ results' = copied.obj
         /\ has_results' = TRUE
         /\ attached' = b
         /\ orders' = order
         /\ RecordNames(Get(b, S("results"), Default))

\* post_init(results), called with the caller's bundle b. The order in which
\* a copy of a set yields its elements depends on the set alone (see OrderOf),
\* so it is the same at every copy made of the stored bundle: order is chosen
\* once, for the copy of line 61 and for the copies that lines 83 and 85 make
\* of it.
PostInit(b, order) ==
    /\ pc = "constructed"
    /\ last_op' = "post_init"
    /\ caller' = b
    /\ Store(b, deepcopy(b, MarkS, order), order)
    /\ repeated' = FALSE
    /\ sdk_calls' = <<>>
    /\ UNCHANGED <<sdk, wandb_run, init_calls, pc, warned, wandb_args, step,
                   step_key, has_wandb_results, wandb_results, run_config,
                   defined, log_count, last_event, dumped, artifacts>>

\* the caller changed an object of its bundle: st holds, after the change,
\* the objects of the logger (d is self.wandb_results) and the caller's bundle
CallerChanged(st) ==
    /\ UNCHANGED <<sdk, wandb_run, init_calls, pc, warned, wandb_args, step,
                   step_key, has_results, has_task_names, task_names,
                   has_wandb_results, attached, orders, run_config, defined,
                   log_count, last_event, dumped, artifacts, sdk_calls, last_op,
                   repeated, raised>>
    /\ caller' = st.c
    /\ results' = st.s
    /\ wandb_results' = st.d

\* the caller removes a key from the bundle it passed to post_init
CallerMutates(k) ==
    /\ has_results
    /\ HasKey(caller, k)
    /\ CallerChanged(Mutate(Refs(wandb_results, Default, results, caller),
                            caller.id, PopItem(caller, k)))

\* the first task's metrics in a bundle
FirstTask(b) == Get(b, S("results"), Default).elems[1][2]

\* the caller removes the first metric of the first task of that bundle
CallerMutatesTask ==
    /\ has_results
    /\ Get(caller, S("results"), Default).type = "dict"
    /\ Get(caller, S("results"), Default).elems # <<>>
    /\ FirstTask(caller).type = "dict"
    /\ FirstTask(caller).elems # <<>>
    /\ CallerChanged(Mutate(Refs(wandb_results, Default, results, caller),
                            FirstTask(caller).id, PopAt(FirstTask(caller), 1)))

\* the define_metric calls of lines 72-73
DefineCalls(mapping) ==
    [i \in 1..Len(mapping.elems) |-> <<"define_metric", Str(mapping.elems[i][1])>>]

\* lines 72-79, on flat = the objects after line 69, logged = the objects after
\* line 74 and art = the outcome of _log_results_as_artifact
Publish(flat, logged, art) ==
    /\ has_wandb_results' = TRUE
    /\ wandb_results' = logged.d
    /\ results' = logged.s
    /\ caller' = logged.c
    /\ defined' = defined \cup
                    { Metric(Str(flat.d.elems[i][1]), step_key, FALSE, TRUE) :
                        i \in 1..Len(flat.d.elems) }
    /\ log_count' = log_count + 1
    /\ last_event' = logged.d
    /\ dumped' = art.dumped
    /\ raised' = art.raised
    /\ artifacts' = artifacts \o art.uploaded
    /\ sdk_calls' = << <<"config.update", "">> >>
                    \o DefineCalls(flat.d)
                    \o << <<"log", "">> >>
                    \o [i \in 1..Len(art.uploaded) |-> <<"log_artifact", "results">>]

\* line 74 and the call of line 79
Inject(flat, logged) ==
    Publish(flat, logged, _log_results_as_artifact(logged.s, step_key, step))

\* lines 69-79, on flat = the outcome of _sanitize_results_dict
Flattened(flat) ==
    IF flat.raised # "none"
    THEN /\ raised' = flat.raised
         /\ results' = flat.s
         /\ caller' = flat.c
         /\ sdk_calls' = << <<"config.update", "">> >>
         /\ UNCHANGED <<has_wandb_results, wandb_results, defined, log_count,
                        last_event, dumped, artifacts>>
    ELSE Inject(flat, Mutate(flat, flat.d.id, SetItem(flat.d, S(step_key), PyInt(step))))

\* log_eval_result()
LogEvalResult ==
    /\ pc = "constructed"
    /\ log_count < MaxLogCalls
    /\ last_op' = "log_eval_result"
    /\ repeated' = (last_op = "log_eval_result")
    /\ IF ~has_results
       THEN \* line 67 reads self.results, which post_init assigns
            /\ raised' = "AttributeError"
            /\ sdk_calls' = <<>>
            /\ UNCHANGED <<results, caller, has_wandb_results, wandb_results,
                           run_config, defined, log_count, last_event, dumped,
                           artifacts>>
       ELSE /\ run_config' = Object("update",
                                    PyDict(<< <<S("bigcode_eval"),
                                                Get(results, S("config"), Default)>> >>))
            /\ Flattened(_sanitize_results_dict(
                             results, <<has_task_names, task_names>>, caller,
                             [n |-> log_count + 1, order |-> orders]))
    /\ UNCHANGED <<sdk, wandb_run, init_calls, pc, warned, wandb_args, step,
                   step_key, has_results, has_task_names, task_names, attached,
                   orders>>

Next ==
    \/ \E kwargs \in StepInputs : Construct(kwargs)
    \/ \E b \in Bundles : \E order \in Orders(b) : PostInit(b, order)
    \/ \E k \in CallerKeys : CallerMutates(k)
    \/ CallerMutatesTask
    \/ LogEvalResult

\* The logger of a process in which the SDK is installed and no run is active;
\* construction in the other processes is the matter of SpecInit.
InitTypes == Init /\ sdk = "ok" /\ ~wandb_run

Spec == InitTypes /\ [][Next]_vars

\* The same logger, constructed with every combination of keyword arguments.
NextInit ==
    \/ \E kwargs \in KwargsInputs : Construct(kwargs)
    \/ \E b \in {Bundle(PyNone, PyNone),
                  Bundle(PyDict(<< <<S("a"), Metrics_xy>> >>),
                         PyDict(<< <<S("seed"), PyInt(0)>> >>))} :
          \E order \in Orders(b) : PostInit(b, order)
    \/ \E k \in CallerKeys : CallerMutates(k)
    \/ CallerMutatesTask
    \/ LogEvalResult

SpecInit == Init /\ [][NextInit]_vars

\* The same logger, fed the bundles of TypedBundles.
NextTypes ==
    \/ \E kwargs \in {<<>>, [step |-> 3]} : Construct(kwargs)
    \/ \E b \in TypedBundles : \E order \in Orders(b) : PostInit(b, order)
    \/ \E k \in CallerKeys : CallerMutates(k)
    \/ CallerMutatesTask
    \/ LogEvalResult

SpecTypes == InitTypes /\ [][NextTypes]_vars

\* The same logger, fed the bundles of MalformedBundles.
NextMalformed ==
    \/ \E kwargs \in StepInputs : Construct(kwargs)
    \/ \E b \in MalformedBundles : \E order \in Orders(b) : PostInit(b, order)
    \/ \E k \in CallerKeys : CallerMutates(k)
    \/ CallerMutatesTask
    \/ LogEvalResult

SpecMalformed == InitTypes /\ [][NextMalformed]_vars

\* The same logger, fed the bundles of CopyBundles.
NextCopy ==
    \/ \E kwargs \in {[step |-> 3]} : Construct(kwargs)
    \/ \E b \in CopyBundles : \E order \in Orders(b) : PostInit(b, order)
    \/ \E k \in CallerKeys : CallerMutates(k)
    \/ CallerMutatesTask
    \/ LogEvalResult

SpecCopy == InitTypes /\ [][NextCopy]_vars

----------------------------------------------------------------------------
(* The claims *)

\* the (task, metric, value) triples of a bundle's results entry
Pairs(b) ==
    UNION { { <<Get(b, S("results"), Default).elems[i][1],
                Get(b, S("results"), Default).elems[i][2].elems[j][1],
                Get(b, S("results"), Default).elems[i][2].elems[j][2]>> :
                j \in 1..Len(Get(b, S("results"), Default).elems[i][2].elems) } :
            i \in 1..Len(Get(b, S("results"), Default).elems) }

\* a bundle whose "results" entry, if it has one, maps task names to mappings
WellFormed(b) ==
    /\ Get(b, S("results"), Default).type = "dict"
    /\ \A i \in 1..Len(Get(b, S("results"), Default).elems) :
          Get(b, S("results"), Default).elems[i][2].type = "dict"

\* a log_eval_result call has just run on a logger that post_init was called on
\* with a well-formed bundle
Logged == last_op = "log_eval_result" /\ has_results /\ WellFormed(results)

\* the positions of an SDK call in the last operation's calls
CallsOf(op) == { i \in 1..Len(sdk_calls) : sdk_calls[i][1] = op }

\* a post_init call: the caller's bundle after it is the bundle passed, and
\* the order of the copies of its sets is the one the call stores, if it
\* stores one
PostInitCall == PostInit(caller', orders')

RECURSIVE Alike(_, _)
\* a and b are one object, or one is a copy of the other: the same class, the
\* same text and parts that are alike, the parts of a set in any order
Alike(a, b) ==
    /\ a.type = b.type /\ a.str = b.str /\ a.repr = b.repr /\ a.val = b.val
    /\ Len(a.elems) = Len(b.elems)
    /\ IF a.type = "dict"
       THEN \A i \in 1..Len(a.elems) :
               Alike(a.elems[i][1], b.elems[i][1]) /\ Alike(a.elems[i][2], b.elems[i][2])
       ELSE IF a.type \in {"set", "frozenset"}
       THEN \A i \in 1..Len(a.elems) : \E j \in 1..Len(b.elems) : Alike(a.elems[i], b.elems[j])
       ELSE \A i \in 1..Len(a.elems) : Alike(a.elems[i], b.elems[i])

RECURSIVE Ids(_)
\* the identities of the objects in o that can change or are compared by
\* identity and copied as new objects
Ids(o) ==
    (IF Mutable(o) \/ o.type \in {"object", "lock"} THEN {o.id} ELSE {})
    \cup (IF o.type = "dict"
          THEN UNION { Ids(o.elems[i][1]) \cup Ids(o.elems[i][2]) : i \in 1..Len(o.elems) }
          ELSE UNION { Ids(o.elems[i]) : i \in 1..Len(o.elems) })

\* the flattening of the stored bundle, as the last call made it
StoredFlat ==
    _sanitize_results_dict(results, <<has_task_names, task_names>>, caller,
                           [n |-> log_count, order |-> orders])

\* every pair of a bundle has its own key in the mapping flat, mapped to the
\* pair's value, and flat has no other key
Bijection(flat, pairs) ==
    /\ flat.raised = "none"
    /\ \A p \in pairs :
          /\ HasKey(flat.d, CompositeKey(p[1], p[2]))
          /\ Alike(GetItem(flat.d, CompositeKey(p[1], p[2])), p[3])
    /\ \A p, q \in pairs :
          CompositeKey(p[1], p[2]) = CompositeKey(q[1], q[2])
              => (p[1] = q[1] /\ p[2] = q[2])
    /\ \A i \in 1..Len(flat.d.elems) :
          \E p \in pairs : flat.d.elems[i][1] = CompositeKey(p[1], p[2])

\* C1: the flattening of every stored bundle returns, without raising, a mapping
\* with exactly one key "t/m" per (task, metric) pair, mapped to the pair's
\* value, distinct pairs giving distinct keys, and no other key.
C1_FlatteningIsBijection == Logged => Bijection(StoredFlat, Pairs(results))

\* the flattening flat did not raise, holds no task name and holds the key of
\* every pair
NoCollision(flat, pairs) ==
    /\ flat.raised = "none"
    /\ \A i \in 1..Len(task_names) : ~HasKey(flat.d, task_names[i])
    /\ \A p \in pairs : HasKey(flat.d, CompositeKey(p[1], p[2]))

\* C2: for every bundle, also one where a task is named as another task's
\* composite key, the flattening after post_init does not raise, leaves no
\* original task key in the mapping and removes no composite metric key.
C2_NoTaskKeyCollision == Logged => NoCollision(StoredFlat, Pairs(results))

\* the last call published one event with the items of flat and with the step,
\* after it declared the keys of flat, and after the config update
OneEvent(flat) ==
    /\ Cardinality(CallsOf("log")) = 1
    /\ flat.raised = "none"
    /\ \A i \in 1..Len(flat.d.elems) :
          /\ HasKey(last_event, flat.d.elems[i][1])
          /\ Alike(GetItem(last_event, flat.d.elems[i][1]), flat.d.elems[i][2])
          /\ Metric(flat.d.elems[i][1].str, step_key, FALSE, TRUE) \in defined
          /\ \E j \in CallsOf("define_metric") :
                /\ sdk_calls[j][2] = flat.d.elems[i][1].str
                /\ \A l \in CallsOf("log") : j < l
    /\ HasKey(last_event, S(step_key))
    /\ GetItem(last_event, S(step_key)) = PyInt(step)
    /\ \E c \in CallsOf("config.update") :
          \A j \in CallsOf("define_metric") \cup CallsOf("log") : c < j

\* C3: every log_eval_result call publishes exactly one log event, which maps
\* each flattened key to its metric value and the step key to the step; each
\* flattened key is declared against the step key before the event is
\* published, and the config update comes before both.
C3_OneEventPerCall == Logged => OneEvent(StoredFlat)

\* C4: every log_eval_result call on a constructed logger reaches the artifact
\* step, which uploads exactly one artifact "results" of type "eval_results"
\* holding results.json, with the aliases "latest" and "<step_key>_<step>",
\* and returns without raising.
C4_ArtifactUploaded ==
    Logged =>
        /\ raised = "none"
        /\ Cardinality(CallsOf("log_artifact")) = 1
        /\ artifacts # <<>>
        /\ artifacts[Len(artifacts)].name = "results"
        /\ artifacts[Len(artifacts)].type = "eval_results"
        /\ artifacts[Len(artifacts)].file = "results.json"
        /\ artifacts[Len(artifacts)].content = dumped.text
        /\ artifacts[Len(artifacts)].aliases = <<"latest", StepAlias(step_key, step)>>

\* C5: with the SDK absent or below the minimum version the constructor logs a
\* warning and completes without raising.
C5_DegradedConstructionCompletes ==
    (last_op = "__init__" /\ sdk \in {"absent", "old"}) =>
        (warned /\ raised = "none" /\ pc = "constructed")

\* C6: construction attaches to the active run and calls wandb.init not at
\* all, or, without an active run, calls wandb.init exactly once, with every
\* keyword argument except step and step_key; step is the argument or 0 and
\* step_key the argument or "train/step".
C6_AttachOrCreate ==
    [][\A kw \in KwargsInputs :
          Construct(kw) =>
            /\ step' = (IF "step" \in DOMAIN kw THEN kw["step"] ELSE 0)
            /\ step_key' = (IF "step_key" \in DOMAIN kw THEN kw["step_key"]
                            ELSE "train/step")
            /\ wandb_run => (init_calls' = init_calls /\ wandb_run')
            /\ ~wandb_run =>
                  /\ Len(init_calls') = Len(init_calls) + 1
                  /\ init_calls'[Len(init_calls')] =
                        [k \in DOMAIN kw \ {"step", "step_key"} |-> kw[k]]
                  /\ wandb_run'
      ]_vars

\* the names of the tasks and of the metrics of the results mapping r are
\* written by str() as those of its copy c
SameNames(r, c) ==
    r.type = "dict" =>
        \A i \in 1..Len(r.elems) :
            /\ Str(c.elems[i][1]) = Str(r.elems[i][1])
            /\ r.elems[i][2].type = "dict" =>
                  \A j \in 1..Len(r.elems[i][2].elems) :
                      Str(c.elems[i][2].elems[j][1]) = Str(r.elems[i][2].elems[j][1])

\* the results mapping r is equal to its deep copy c, which str() names alike
EqualToCopy(r, c) == Eq(c, r) /\ SameNames(r, c)

\* the results entry of a bundle is equal to the deep copies made of it
EqualCopies(b) ==
    EqualToCopy(Get(b, S("results"), Default),
                Copy(Get(b, S("results"), Default), ".c", orders))

\* C7 as stated: a log_eval_result call leaves the stored bundle, the task
\* names, the step and the step key as they were, and for any stored bundle a
\* call that follows another with no post_init between them makes a flattened
\* mapping equal to the one the first call made.
C7_RepeatedLogIsIdempotent ==
    [][LogEvalResult =>
          /\ results' = results
          /\ task_names' = task_names
          /\ step' = step
          /\ step_key' = step_key
          /\ last_op = "log_eval_result" =>
                /\ has_wandb_results' = has_wandb_results
                /\ Eq(wandb_results', wandb_results)
      ]_vars

\* C7, amended: a log_eval_result call leaves the stored bundle, the task
\* names, the step and the step key as they were; for a stored bundle whose
\* results entry is equal to its deep copies, with task and metric names that
\* str() writes as it writes their copies, a call that follows another with no
\* post_init between them makes a flattened mapping equal to the one the first
\* call made.
C7_RepeatedLogOfEqualCopies ==
    [][LogEvalResult =>
          /\ results' = results
          /\ task_names' = task_names
          /\ step' = step
          /\ step_key' = step_key
          /\ (last_op = "log_eval_result" /\ EqualCopies(results)) =>
                /\ has_wandb_results' = has_wandb_results
                /\ Eq(wandb_results', wandb_results)
      ]_vars

\* two calls in a row have flattened a bundle with a set among its metrics,
\* each call from copies of its own
C7_Witness ==
    /\ repeated
    /\ log_count = 2
    /\ EqualCopies(results)
    /\ HasKey(wandb_results, S("a/ids"))

\* what a log call that publishes makes of the bundle b, copied by post_init
\* with the sets of its copies in the order call.order: the flattened mapping
\* and the dump
Reflected(b, names, call) ==
    [mapping |-> SetItem(_sanitize_results_dict(Copy(b, MarkS, call.order), names,
                                                PyNone, call).d,
                         S(step_key), PyInt(step)),
     dumped |-> dumps(Copy(b, MarkS, call.order))]

\* C8 as stated: post_init and log_eval_result leave the caller's bundle as it
\* is; after every post_init the stored bundle is a copy of the bundle passed
\* and shares no object that can change with it; what the caller does to its
\* bundle after post_init, at any depth, changes neither the stored bundle nor
\* the flattened mapping; and a log call flattens and serializes the bundle as
\* it was at the most recent post_init.
C8_CallerBundleIsolated ==
    [][/\ LogEvalResult => caller' = caller
       /\ PostInitCall =>
             /\ caller' = attached'
             /\ Alike(results', caller')
             /\ Ids(results') \cap Ids(caller') = {}
       /\ ((\E k \in CallerKeys : CallerMutates(k)) \/ CallerMutatesTask) =>
             (caller' # caller /\ results' = results /\ wandb_results' = wandb_results)
       /\ has_results' => (Alike(results', attached') /\ Ids(results') \cap Ids(caller') = {})
       /\ (log_count' = log_count + 1 /\ LogEvalResult) =>
             LET made == Reflected(attached, <<has_task_names, task_names>>,
                                   [n |-> log_count + 1, order |-> orders])
             IN  wandb_results' = made.mapping /\ dumped' = made.dumped
      ]_vars

\* C8, amended: post_init and log_eval_result leave the caller's bundle as it
\* is; a post_init whose copy.deepcopy call raises TypeError leaves the stored
\* bundle as it was, and after every other post_init the stored bundle is a
\* copy of the bundle passed and shares no object that can change with it;
\* what the caller does to its bundle after post_init, at any depth, changes
\* neither the stored bundle nor the flattened mapping; and a log call
\* flattens and serializes the bundle as it was at the most recent post_init
\* whose copy.deepcopy call did not raise.
C8_StoredCopyIsolated ==
    [][/\ LogEvalResult => caller' = caller
       /\ PostInitCall =>
             /\ raised' # "TypeError" =>
                   /\ caller' = attached'
                   /\ Alike(results', caller')
                   /\ Ids(results') \cap Ids(caller') = {}
             /\ raised' = "TypeError" =>
                   (results' = results /\ attached' = attached
                    /\ has_results' = has_results /\ task_names' = task_names)
       /\ ((\E k \in CallerKeys : CallerMutates(k)) \/ CallerMutatesTask) =>
             (caller' # caller /\ results' = results /\ wandb_results' = wandb_results)
       /\ has_results' => (Alike(results', attached') /\ Ids(results') \cap Ids(caller') = {})
       /\ (log_count' = log_count + 1 /\ LogEvalResult) =>
             LET made == Reflected(attached, <<has_task_names, task_names>>,
                                   [n |-> log_count + 1, order |-> orders])
             IN  wandb_results' = made.mapping /\ dumped' = made.dumped
      ]_vars

\* the caller removed a metric of a task from its bundle, and the log call
\* flattened and serialized the metrics the bundle held at post_init
C8_Witness ==
    /\ last_op = "log_eval_result"
    /\ log_count > 0
    /\ raised # "AttributeError"
    /\ \A b \in {attached, caller, results} :
          /\ Get(b, S("results"), Default).type = "dict"
          /\ Get(b, S("results"), Default).elems # <<>>
          /\ FirstTask(b).type = "dict"
    /\ HasKey(FirstTask(attached), S("x"))
    /\ ~HasKey(FirstTask(caller), S("x"))
    /\ HasKey(FirstTask(results), S("x"))
    /\ HasKey(wandb_results, S("a/x"))
    /\ HasKey(last_event, S("a/x"))
    /\ dumped = dumps(results)

\* the log-metrics steps of the last call ran to the publish
Published == Cardinality(CallsOf("log")) = 1

\* the mapping that holds the injected step key alone
StepOnly == PyDict(<< <<S(step_key), PyInt(step)>> >>)

\* the config update of a bundle without "config"
EmptyConfig == Object("update", PyDict(<< <<S("bigcode_eval"), Default>> >>))

\* a bundle without "results" or with an empty "results"
NoResults(b) == Get(b, S("results"), Default).elems = <<>>
                /\ Get(b, S("results"), Default).type = "dict"

\* C9 as stated: for a bundle without "config", without "results", without
\* both, or with an empty "results", post_init does not raise, the log-metrics
\* steps do not raise and the flattened mapping holds the step key alone.
C9_MalformedGivesEmpty ==
    [][/\ (PostInitCall /\ (~HasKey(caller', S("config")) \/ NoResults(caller'))) =>
             raised' = "none"
       /\ (LogEvalResult /\ has_results
           /\ (~HasKey(results, S("config")) \/ NoResults(results))) =>
             (Published' /\ Eq(wandb_results', StepOnly))
      ]_vars

\* the stored bundle with an empty config
WithEmptyConfig(b) == SetItem(b, S("config"), Object("config", PyDict(<<>>)))

\* the outcome flat of a flattening is the outcome of the call that just ran
SameOutcome(flat) ==
    IF flat.raised # "none"
    THEN raised' = flat.raised /\ ~Published'
    ELSE Published' /\ wandb_results' = SetItem(flat.d, S(step_key), PyInt(step))

\* C9, amended: for a bundle without "results" or with an empty "results",
\* whose values can be copied, post_init does not raise, the log-metrics steps
\* do not raise and the flattened mapping holds the step key alone; for a
\* bundle without "config", post_init and the log-metrics steps do what they
\* do for the same bundle with an empty config: the config update receives an
\* empty mapping, and the steps raise the same exception or make the same
\* flattened mapping.
C9_MissingResultsGivesEmpty ==
    [][/\ PostInitCall =>
             /\ (NoResults(caller') /\ ~Uncopyable(caller')) =>
                   (raised' = "none" /\ Alike(results', caller'))
             /\ ~HasKey(caller', S("config")) =>
                   /\ (raised' = "TypeError") = Uncopyable(WithEmptyConfig(caller'))
                   /\ raised' = "none" =>
                         Alike(WithEmptyConfig(results'), WithEmptyConfig(caller'))
       /\ (LogEvalResult /\ has_results /\ NoResults(results)) =>
             (Published' /\ Eq(wandb_results', StepOnly))
       /\ (LogEvalResult /\ has_results /\ ~HasKey(results, S("config"))) =>
             /\ run_config' = EmptyConfig
             /\ SameOutcome(_sanitize_results_dict(
                                WithEmptyConfig(results), <<has_task_names, task_names>>,
                                caller, [n |-> log_count + 1, order |-> orders]))
      ]_vars

\* a bundle with neither key was attached and logged
C9_Witness ==
    /\ Logged
    /\ results.elems = <<>>
    /\ Published
    /\ Eq(wandb_results, StepOnly)
    /\ run_config = EmptyConfig

\* C10: the dump of the results bundle never raises for a type: every value
\* the encoder does not write natively goes through the fallback.
C10_DumpNeverRaises == dumped.raised # "TypeError"

====
